---- MODULE Spec2Model ----
(***************************************************************************)
(* JTA Residential Healthcare API (src/app/main.py, src/app/auth.py).      *)
(*                                                                         *)
(* The state is the three DynamoDB tables, the wall clock, the values      *)
(* auth.py fixes when it is imported (utc_now, ACCESS_TOKEN_EXPIRE_MINUTES)*)
(* the tokens handed out so far, and the last request with its response    *)
(* and the store calls its handler made.  One action per route, each the   *)
(* whole handler with its dependency on verify_token; requests are served  *)
(* one at a time (send_response ends one), and Tick moves the clock        *)
(* between requests.                                                       *)
(*                                                                         *)
(* Text is a sequence of one-character strings, so that str(float) and the *)
(* numeric test of a text are computed and not assumed.  A DynamoDB typed  *)
(* value {'S': v} / {'N': v} is a function with domain {"S"} / {"N"}, an   *)
(* item (a dict of them) is a function from attribute names.               *)
(***************************************************************************)
EXTENDS Integers, Sequences, FiniteSets, TLC

VARIABLES
    now,        \* wall clock, in minutes
    utc_now,    \* auth.py line 7: datetime.now() taken once, at import
    ACCESS_TOKEN_EXPIRE_MINUTES,   \* auth.py line 16, read once at import
    tables,     \* table name -> set of items (the backing store)
    issued,     \* tokens handed out by login so far
    request,    \* the last request served: its route and its credential
    args,       \* the arguments its handler body ran with (None: it never ran)
    response,   \* its response
    calls       \* the store calls its handler sent, in order

vars == <<now, utc_now, ACCESS_TOKEN_EXPIRE_MINUTES, tables, issued,
          request, args, response, calls>>

-----------------------------------------------------------------------------
(* Bounds *)

MaxClock == 2       \* the clock runs 0..MaxClock
MaxTTL == 1         \* configured token lifetimes 0..MaxTTL

-----------------------------------------------------------------------------
(* Text *)

DigitChars == <<"0", "1", "2", "3", "4", "5", "6", "7", "8", "9">>

IsDigit(c) == \E i \in 1..Len(DigitChars) : DigitChars[i] = c

\* str(n) for an int n >= 0
RECURSIVE IntStr(_)
IntStr(n) ==
    IF n < 10 THEN <<DigitChars[n + 1]>>
    ELSE IntStr(n \div 10) \o <<DigitChars[(n % 10) + 1]>>

Pow10(k) == IF k = 0 THEN 1 ELSE IF k = 1 THEN 10 ELSE 100

\* A float is [mant, frac]: mant / 10^frac, frac >= 1 digits after the point
\* (15.5 is [mant |-> 155, frac |-> 1], 16.0 is [mant |-> 160, frac |-> 1]).
\* str(float): Python prints the integer part, a point and the fraction.
RECURSIVE PadFrac(_, _)
PadFrac(s, k) == IF Len(s) >= k THEN s ELSE PadFrac(<<"0">> \o s, k)

FloatStr(f) ==
    IntStr(f.mant \div Pow10(f.frac)) \o <<".">>
        \o PadFrac(IntStr(f.mant % Pow10(f.frac)), f.frac)

HasPoint(s) == \E i \in 1..Len(s) : s[i] = "."

\* a text Python's float()/int() accepts: digits with at most one point
IsNumeric(s) ==
    /\ Len(s) > 0
    /\ \A i \in 1..Len(s) : IsDigit(s[i]) \/ s[i] = "."
    /\ \E i \in 1..Len(s) : IsDigit(s[i])
    /\ Cardinality({i \in 1..Len(s) : s[i] = "."}) <= 1

DigitVal(c) == (CHOOSE i \in 1..Len(DigitChars) : DigitChars[i] = c) - 1

RECURSIVE ParseDigits(_)
ParseDigits(s) ==
    IF Len(s) = 0 THEN 0
    ELSE 10 * ParseDigits(SubSeq(s, 1, Len(s) - 1)) + DigitVal(s[Len(s)])

PointAt(s) == CHOOSE i \in 1..Len(s) : s[i] = "."

\* float(text) for a numeric text with a point
ParseFloat(s) ==
    LET p == PointAt(s)
        whole == SubSeq(s, 1, p - 1)
        fracs == SubSeq(s, p + 1, Len(s))
    IN  [mant |-> ParseDigits(whole \o fracs), frac |-> Len(fracs)]

-----------------------------------------------------------------------------
(* Python values of a response body and DynamoDB typed values *)

PyStr(s) == [py |-> "str", v |-> s]
PyInt(n) == [py |-> "int", v |-> n]
PyFloat(f) == [py |-> "float", v |-> f]

AttrS(s) == [k \in {"S"} |-> s]
AttrN(s) == [k \in {"N"} |-> s]

-----------------------------------------------------------------------------
(* Token service: auth.py *)

API_USERNAME == <<"j", "t", "a">>
API_PASSWORD == <<"p", "w">>
Usernames == {API_USERNAME, <<"e", "v", "e">>}
Passwords == {API_PASSWORD, <<"x">>}

\* Optional values: <<>> is None, <<x>> is x
None == <<>>
Some(x) == <<x>>

\* What a request carries as its credential
Missing == [kind |-> "missing"]       \* no Authorization: Bearer header
Malformed == [kind |-> "malformed"]   \* a bearer string that is no JWT

\* A JWT: the key that signed it, and its payload's sub and exp claims
Jwt(sig, sub, exp) == [kind |-> "jwt", sig |-> sig, sub |-> sub, exp |-> exp]

\* create_access_token(data, expires_delta); expires_delta in minutes.
\* A zero timedelta is falsy, so it takes the 15 minute branch.
create_access_token(data, expires_delta) ==
    LET expire == IF expires_delta # 0
                  THEN utc_now + expires_delta
                  ELSE utc_now + 15
    IN  Jwt("SECRET_KEY", Some(data.sub), Some(expire))

\* jwt.decode that skips the expiry check
jwt_decode_noexp(token, t) ==
    IF token.kind # "jwt" THEN [ok |-> FALSE]
    ELSE IF token.sig # "SECRET_KEY" THEN [ok |-> FALSE]
    ELSE [ok |-> TRUE, payload |-> token]

\* jwt.decode(token, SECRET_KEY, algorithms=[ALGORITHM]) at time t.
\* DecodeError, InvalidSignatureError and ExpiredSignatureError are all
\* PyJWTErrors; a payload without exp is not checked for expiry, and one
\* with exp is expired from exp on (PyJWT 2: exp <= now).
jwt_decode(token, t) ==
    IF token.kind # "jwt" THEN [ok |-> FALSE]
    ELSE IF token.sig # "SECRET_KEY" THEN [ok |-> FALSE]
    ELSE IF token.exp # None /\ token.exp[1] <= t THEN [ok |-> FALSE]
    ELSE [ok |-> TRUE, payload |-> token]

\* credentials_exception, and what OAuth2PasswordBearer raises without a header
Unauthorized ==
    [status |-> 401, headers |-> {"WWW-Authenticate: Bearer"}]

\* verify_token that does not look for the subject
verify_token_nosub(token, t) ==
    IF token.kind = "missing" THEN [ok |-> FALSE]
    ELSE LET d == jwt_decode(token, t)
         IN  IF ~d.ok THEN [ok |-> FALSE]
             ELSE [ok |-> TRUE, username |-> d.payload.sub]

\* Depends(verify_token), with Depends(oauth2_scheme) in front of it: without
\* an Authorization: Bearer header oauth2_scheme raises the 401 itself
verify_token(token, t) ==
    IF token.kind = "missing" THEN [ok |-> FALSE]
    ELSE LET d == jwt_decode(token, t)
         IN  IF ~d.ok THEN [ok |-> FALSE]
             ELSE IF d.payload.sub = None THEN [ok |-> FALSE]
                  ELSE [ok |-> TRUE, username |-> d.payload.sub[1]]

\* tokens not issued by login that a caller can present
ForeignTokens ==
    { Missing, Malformed,
      Jwt("other key", Some(API_USERNAME), Some(MaxClock + 1)),
      Jwt("SECRET_KEY", None, Some(MaxClock + 1)) }

Presentable == issued \cup ForeignTokens

-----------------------------------------------------------------------------
(* Records and request bodies *)

Txt_S1 == <<"S", "1">>
Txt_S2 == <<"S", "2">>
Txt_E1 == <<"E", "1">>
Txt_E2 == <<"E", "2">>
Txt_D1 == <<"d", "1">>
Txt_Ann == <<"A", "n", "n">>
Txt_Bob == <<"B", "o", "b">>
Txt_16_0 == <<"1", "6", ".", "0">>
Txt_shift_id == <<"s", "h", "i", "f", "t", "_", "i", "d">>
Empty == <<>>

F15_5 == [mant |-> 155, frac |-> 1]
F0_0 == [mant |-> 0, frac |-> 1]

TableNames == {"Staff", "Shifts", "Expenses"}

\* the tables' primary keys, as the handlers' Key= arguments name them
KeyAttrs(t) ==
    IF t = "Staff" THEN {"staffID"}
    ELSE IF t = "Shifts" THEN {"shiftID", "startDate"}
    ELSE {"expenseID", "date"}

\* class Staff(BaseModel); a str field takes the empty string
StaffBodies ==
    [staffID : {Txt_S1, Txt_S2, Empty}, fullName : {Txt_Ann},
     employmentType : {<<"F", "T">>}, jobTitle : {<<"R", "N">>},
     hourlyRate : {F15_5}]

\* class Shift(BaseModel)
ShiftBodies ==
    [staffID : {Txt_S1}, startDate : {Txt_D1}, endDate : {Txt_D1},
     house : {<<"h">>}, shift : {<<"a", "m">>}, shiftStart : {<<"8">>},
     shiftEnd : {<<"9">>}, overtime : {F0_0}, totalHours : {F15_5},
     totalWage : {F15_5}, absence : {<<"n">>}, absenceStatus : {<<"n">>}]

\* class Expense(BaseModel)
ExpenseBodies ==
    [expenseID : {Txt_E1, Empty}, date : {Txt_D1},
     youngPersonWeeklyMoney : {F0_0}, maintenance : {F0_0}, IT : {F0_0},
     misc : {F15_5}, pettyCash : {F0_0}, general : {F0_0}]

\* path parameters: a path segment is never empty
StaffPathIDs == {Txt_S1, Txt_S2}
ShiftPathIDs == {Txt_S1, Txt_S2}
ExpensePathIDs == {Txt_E1, Txt_E2}
PathDates == {Txt_D1}

\* class UpdateStaffRequest(BaseModel): updates: Dict[str, str], so every
\* value reaches the handler as a Python str.
\* Staff: no field, a numeric text for a plain field, a key attribute
StaffUpdates ==
    { <<>>,
      [a \in {"hourlyRate"} |-> PyStr(Txt_16_0)],
      [a \in {"staffID"} |-> PyStr(Txt_Bob)] }

\* Shifts: no field, a plain text for a plain field
ShiftUpdates ==
    { <<>>,
      [a \in {"house"} |-> PyStr(Txt_Bob)] }

\* Expenses: no field, two fields at once (a numeric text and a plain text)
ExpenseUpdates ==
    { <<>>,
      [a \in {"misc", "IT"} |->
          IF a = "misc" THEN PyStr(Txt_16_0) ELSE PyStr(Txt_Bob)] }

-----------------------------------------------------------------------------
(* The backing store: what the DynamoDB client calls do *)

\* the item's attributes restricted to the table's key
KeyOf(t, item) == [a \in KeyAttrs(t) \cap DOMAIN item |-> item[a]]

\* a key DynamoDB accepts: every key attribute, as a non-empty string
ValidKey(t, key) ==
    /\ DOMAIN key = KeyAttrs(t)
    /\ \A a \in DOMAIN key : DOMAIN key[a] = {"S"} /\ key[a]["S"] # Empty

Lookup(T, t, key) == {i \in T[t] : KeyOf(t, i) = key}

\* client.put_item(TableName=t, Item=item): overwrite by key;
\* an item without its full key is a ValidationException
put_item(T, t, item) ==
    IF ValidKey(t, KeyOf(t, item))
    THEN [ok |-> TRUE,
          tables |-> [T EXCEPT ![t] =
                        (T[t] \ Lookup(T, t, KeyOf(t, item))) \cup {item}]]
    ELSE [ok |-> FALSE, tables |-> T]

\* client.get_item(TableName=t, Key=key): the response has 'Item' if found
get_item(T, t, key) ==
    IF ~ValidKey(t, key) THEN [ok |-> FALSE]
    ELSE [ok |-> TRUE,
          Item |-> IF Lookup(T, t, key) = {} THEN None
                   ELSE Some(CHOOSE i \in Lookup(T, t, key) : TRUE)]

\* client.scan(TableName=t)
scan(T, t) == [ok |-> TRUE, Items |-> T[t]]

\* client.delete_item(TableName=t, Key=key): no error when nothing is there
delete_item(T, t, key) ==
    IF ~ValidKey(t, key) THEN [ok |-> FALSE, tables |-> T]
    ELSE [ok |-> TRUE,
          tables |-> [T EXCEPT ![t] = T[t] \ Lookup(T, t, key)]]

\* client.update_item(TableName=t, Key=key, UpdateExpression=expr,
\*     ExpressionAttributeValues=values, ReturnValues="UPDATED_NEW").
\* expr.SET is the set of attributes "SET a = :a, ..." assigns and values maps
\* each a to the value of its placeholder :a.  An expression with nothing
\* after SET, an empty value map and an assignment to a key attribute are
\* ValidationExceptions.  A key with no item gets a new item: the key plus the
\* assigned attributes.
update_item(T, t, key, expr, values) ==
    IF \/ ~ValidKey(t, key)
       \/ expr.SET = {}
       \/ DOMAIN values = {}
       \/ \E a \in expr.SET : a \in KeyAttrs(t)
    THEN [ok |-> FALSE, tables |-> T]
    ELSE LET found == Lookup(T, t, key)
             old == IF found = {} THEN key ELSE CHOOSE i \in found : TRUE
             new == [a \in DOMAIN old \cup expr.SET |->
                        IF a \in expr.SET THEN values[a] ELSE old[a]]
         IN  [ok |-> TRUE,
              tables |-> [T EXCEPT ![t] = (T[t] \ found) \cup {new}],
              Attributes |-> [a \in expr.SET |-> values[a]]]

PutCall(t, item) == [op |-> "put_item", TableName |-> t, Item |-> item]
GetCall(t, key) == [op |-> "get_item", TableName |-> t, Key |-> key]
ScanCall(t) == [op |-> "scan", TableName |-> t]
DeleteCall(t, key) == [op |-> "delete_item", TableName |-> t, Key |-> key]
UpdateCall(t, key, expr, values) ==
    [op |-> "update_item", TableName |-> t, Key |-> key,
     UpdateExpression |-> expr, ExpressionAttributeValues |-> values]

-----------------------------------------------------------------------------
(* Helpers of main.py *)

\* deserialize_dynamodb_item_for_list: TypeDeserializer gives str for S and
\* Decimal for N
deserialize_dynamodb_item_for_list(item) ==
    [k \in DOMAIN item |->
        IF "S" \in DOMAIN item[k] THEN PyStr(item[k]["S"])
        ELSE [py |-> "Decimal", v |-> item[k]["N"]]]

\* deserialize_dynamodb_item(d): d is whatever dict the caller passes, a typed
\* value or a whole item; ok = FALSE is the ValueError
deserialize_dynamodb_item(d) ==
    IF "S" \in DOMAIN d THEN [ok |-> TRUE, value |-> PyStr(d["S"])]
    ELSE IF "N" \in DOMAIN d
         THEN [ok |-> TRUE,
               value |-> IF HasPoint(d["N"]) THEN PyFloat(ParseFloat(d["N"]))
                         ELSE PyInt(ParseDigits(d["N"]))]
         ELSE [ok |-> FALSE]

Ok(body) == [status |-> 200, headers |-> {}, body |-> body]
\* except Exception as e: raise HTTPException(status_code=500, detail=str(e))
InternalError == [status |-> 500, headers |-> {}]
\* a required query parameter is absent
Unprocessable == [status |-> 422, headers |-> {}]

\* no request is being served
NoRequest ==
    [op |-> "none", token |-> Missing, path |-> <<>>, query |-> None]
NoResponse == [status |-> 0, headers |-> {}]
Idle == request = NoRequest

Reply(req, a, rsp, cs, T) ==
    /\ request' = req
    /\ args' = a
    /\ response' = rsp
    /\ calls' = cs
    /\ tables' = T
    /\ UNCHANGED <<now, utc_now, ACCESS_TOKEN_EXPIRE_MINUTES, issued>>

\* a request: its route, its credential, its path and query parameters.
\* Its body is in args once the handler body runs with it; a request that is
\* refused before that is answered the same whatever its body, so the refusing
\* branches of the routes fix the body they draw.
Req(op, token, path) ==
    [op |-> op, token |-> token, path |-> path, query |-> None]

\* str(v) of a Python value
PyToStr(v) ==
    IF v.py = "str" THEN v.v
    ELSE IF v.py = "float" THEN FloatStr(v.v)
    ELSE IntStr(v.v)

\* update_expression = "SET " + ", ".join(f"{k} = :{k}" for k in updates.keys())
UpdateExpression(updates) == [SET |-> DOMAIN updates]

\* {f":{k}": {'S': v} if isinstance(v, str) else {'N': str(v)} ...}
ExpressionAttributeValues(updates) ==
    [k \in DOMAIN updates |->
        IF updates[k].py = "str" THEN AttrS(updates[k].v)
        ELSE AttrN(PyToStr(updates[k]))]

\* {k: deserialize_dynamodb_item(v) for k, v in attributes.items()}
\*     if attributes else {}
DecodeAttributes(attributes) ==
    IF \A k \in DOMAIN attributes : deserialize_dynamodb_item(attributes[k]).ok
    THEN Ok([k \in DOMAIN attributes |->
                deserialize_dynamodb_item(attributes[k]).value])
    ELSE InternalError

\* return deserialize_dynamodb_item(item) if item else {}
DecodeItem(Item) ==
    IF Item = None THEN Ok(<<>>)
    ELSE IF deserialize_dynamodb_item(Item[1]).ok
         THEN Ok(deserialize_dynamodb_item(Item[1]).value)
         ELSE InternalError

-----------------------------------------------------------------------------
(* Routes *)

\* GET /
root ==
    /\ Idle
    /\ request' = Req("root", Missing, <<>>)
    /\ args' = Some(<<>>)
    /\ response' = Ok(<<"Welcome to JTA Residential Care API">>)
    /\ calls' = <<>>
    /\ UNCHANGED <<now, utc_now, ACCESS_TOKEN_EXPIRE_MINUTES, tables, issued>>

\* the response is sent; the server waits for the next request
send_response ==
    /\ ~Idle
    /\ request' = NoRequest
    /\ args' = None
    /\ response' = NoResponse
    /\ calls' = <<>>
    /\ UNCHANGED <<now, utc_now, ACCESS_TOKEN_EXPIRE_MINUTES, tables, issued>>

\* POST /token
login ==
    /\ Idle
    /\ \E username \in Usernames, password \in Passwords :
        LET req == Req("login", Missing, <<>>)
            form_data == [username |-> username, password |-> password]
        IN  IF username # API_USERNAME \/ password # API_PASSWORD
            THEN /\ Reply(req, Some(form_data), Unauthorized, <<>>, tables)
            ELSE LET access_token ==
                        create_access_token([sub |-> username],
                                            ACCESS_TOKEN_EXPIRE_MINUTES)
                 IN  /\ request' = req
                     /\ args' = Some(form_data)
                     /\ response' = Ok([access_token |-> access_token,
                                        token_type |-> "bearer"])
                     /\ calls' = <<>>
                     /\ issued' = issued \cup {access_token}
                     /\ UNCHANGED <<now, utc_now,
                                    ACCESS_TOKEN_EXPIRE_MINUTES, tables>>

\* the clock advances
Tick ==
    /\ Idle
    /\ now < MaxClock
    /\ now' = now + 1
    /\ UNCHANGED <<utc_now, ACCESS_TOKEN_EXPIRE_MINUTES, tables, issued,
                   request, args, response, calls>>


-----------------------------------------------------------------------------
(* Staff *)

StaffItem(staff) ==
    [a \in {"staffID", "fullName", "employmentType", "jobTitle", "hourlyRate"}
        |-> IF a = "hourlyRate" THEN AttrN(FloatStr(staff.hourlyRate))
            ELSE AttrS(staff[a])]

StaffKey(staff_id) == [a \in {"staffID"} |-> AttrS(staff_id)]

\* POST /jta/api/staff
create_staff ==
    /\ Idle
    /\ \E token \in Presentable, staff \in StaffBodies :
        LET req == Req("create_staff", token, <<>>)
            item == StaffItem(staff)
            r == put_item(tables, "Staff", item)
        IN  IF ~verify_token(token, now).ok
            THEN Reply(req, None, Unauthorized, <<>>, tables)
            ELSE Reply(req, Some([staff |-> staff]),
                       IF r.ok THEN Ok(<<"Staff created successfully">>)
                       ELSE InternalError,
                       <<PutCall("Staff", item)>>, r.tables)

\* GET /jta/api/staff
get_all_staff ==
    /\ Idle
    /\ \E token \in Presentable :
        LET req == Req("get_all_staff", token, <<>>)
            r == scan(tables, "Staff")
        IN  IF ~verify_token(token, now).ok
            THEN Reply(req, None, Unauthorized, <<>>, tables)
            ELSE Reply(req, Some(<<>>),
                       Ok({deserialize_dynamodb_item_for_list(i) : i \in r.Items}),
                       <<ScanCall("Staff")>>, tables)

\* GET /jta/api/staff/{staff_id}
get_staff ==
    /\ Idle
    /\ \E token \in Presentable, staff_id \in StaffPathIDs :
        LET req == Req("get_staff", token, <<staff_id>>)
            key == StaffKey(staff_id)
            r == get_item(tables, "Staff", key)
        IN  IF ~verify_token(token, now).ok
            THEN Reply(req, None, Unauthorized, <<>>, tables)
            ELSE Reply(req, Some([staff_id |-> staff_id]),
                       IF r.ok THEN DecodeItem(r.Item) ELSE InternalError,
                       <<GetCall("Staff", key)>>, tables)

\* PUT /jta/api/staff/{staff_id}.  update_item is called after the
\* "async with" block that owns the client has closed it: whether a closed
\* client still sends depends on the client library, so both happen.
update_staff ==
    /\ Idle
    /\ \E token \in Presentable, staff_id \in StaffPathIDs,
       updates \in StaffUpdates, sends \in BOOLEAN :
        LET req == Req("update_staff", token, <<staff_id>>)
            a == Some([staff_id |-> staff_id, updates |-> updates])
            key == StaffKey(staff_id)
            update_expression == UpdateExpression(updates)
            expression_attribute_values == ExpressionAttributeValues(updates)
            r == update_item(tables, "Staff", key, update_expression,
                             expression_attribute_values)
            call == UpdateCall("Staff", key, update_expression,
                               expression_attribute_values)
        IN  IF ~verify_token(token, now).ok
            THEN /\ sends /\ updates = <<>>
                 /\ Reply(req, None, Unauthorized, <<>>, tables)
            ELSE IF ~sends
                 THEN Reply(req, a, InternalError, <<>>, tables)
                 ELSE Reply(req, a,
                            IF r.ok THEN DecodeAttributes(r.Attributes)
                            ELSE InternalError,
                            <<call>>, r.tables)

\* DELETE /jta/api/staff/{staff_id}
delete_staff ==
    /\ Idle
    /\ \E token \in Presentable, staff_id \in StaffPathIDs :
        LET req == Req("delete_staff", token, <<staff_id>>)
            key == StaffKey(staff_id)
            r == delete_item(tables, "Staff", key)
        IN  IF ~verify_token(token, now).ok
            THEN Reply(req, None, Unauthorized, <<>>, tables)
            ELSE Reply(req, Some([staff_id |-> staff_id]),
                       IF r.ok THEN Ok(<<"Staff deleted successfully">>)
                       ELSE InternalError,
                       <<DeleteCall("Staff", key)>>, r.tables)

-----------------------------------------------------------------------------
(* Shifts *)

ShiftStrAttrs ==
    {"staffID", "startDate", "endDate", "house", "shift", "shiftStart",
     "shiftEnd", "absence", "absenceStatus"}
ShiftNumAttrs == {"overtime", "totalHours", "totalWage"}

\* the item create_shift builds: it has no shiftID
ShiftItem(shift) ==
    [a \in ShiftStrAttrs \cup ShiftNumAttrs
        |-> IF a \in ShiftNumAttrs THEN AttrN(FloatStr(shift[a]))
            ELSE AttrS(shift[a])]

\* Key={'shiftID': {'S': 'shift_id'}, 'startDate': {'S': start_date}}:
\* the shiftID is the literal text 'shift_id'
ShiftKey(start_date) ==
    [a \in {"shiftID", "startDate"}
        |-> IF a = "shiftID" THEN AttrS(Txt_shift_id) ELSE AttrS(start_date)]

\* The shift routes' functions take (staff_id, start_date) while the path is
\* {shift_id}/{start_date}: staff_id is a required query parameter and the
\* path's shift_id is bound to nothing.
ShiftQueries == {None, Some(Txt_S1)}

ShiftReq(op, token, shift_id, start_date, staff_id) ==
    [op |-> op, token |-> token, path |-> <<shift_id, start_date>>,
     query |-> staff_id]

\* GET /jta/api/shifts
get_all_shifts ==
    /\ Idle
    /\ \E token \in Presentable :
        LET req == Req("get_all_shifts", token, <<>>)
            r == scan(tables, "Shifts")
        IN  IF ~verify_token(token, now).ok
            THEN Reply(req, None, Unauthorized, <<>>, tables)
            ELSE Reply(req, Some(<<>>),
                       Ok({deserialize_dynamodb_item_for_list(i) : i \in r.Items}),
                       <<ScanCall("Shifts")>>, tables)

\* GET /jta/api/shifts/{shift_id}/{start_date}
get_shift ==
    /\ Idle
    /\ \E token \in Presentable, shift_id \in ShiftPathIDs,
          start_date \in PathDates, staff_id \in ShiftQueries :
        LET req == ShiftReq("get_shift", token, shift_id, start_date, staff_id)
            key == ShiftKey(start_date)
            r == get_item(tables, "Shifts", key)
        IN  IF ~verify_token(token, now).ok
            THEN Reply(req, None, Unauthorized, <<>>, tables)
            ELSE IF staff_id = None
                 THEN Reply(req, None, Unprocessable, <<>>, tables)
                 ELSE Reply(req, Some([staff_id |-> staff_id[1],
                                       start_date |-> start_date]),
                            IF r.ok THEN DecodeItem(r.Item) ELSE InternalError,
                            <<GetCall("Shifts", key)>>, tables)

\* PUT /jta/api/shifts/{shift_id}/{start_date}
update_shift ==
    /\ Idle
    /\ \E token \in Presentable, shift_id \in ShiftPathIDs,
          start_date \in PathDates, staff_id \in ShiftQueries,
          updates \in ShiftUpdates :
        LET req == ShiftReq("update_shift", token, shift_id, start_date,
                            staff_id)
            key == ShiftKey(start_date)
            update_expression == UpdateExpression(updates)
            expression_attribute_values == ExpressionAttributeValues(updates)
            r == update_item(tables, "Shifts", key, update_expression,
                             expression_attribute_values)
            call == UpdateCall("Shifts", key, update_expression,
                               expression_attribute_values)
        IN  IF ~verify_token(token, now).ok
            THEN /\ updates = <<>>
                 /\ Reply(req, None, Unauthorized, <<>>, tables)
            ELSE IF staff_id = None
                 THEN /\ updates = <<>>
                      /\ Reply(req, None, Unprocessable, <<>>, tables)
                 ELSE Reply(req, Some([staff_id |-> staff_id[1],
                                       start_date |-> start_date,
                                       updates |-> updates]),
                            IF r.ok THEN DecodeAttributes(r.Attributes)
                            ELSE InternalError,
                            <<call>>, r.tables)

\* POST /jta/api/shifts.  put_item is called after the "async with" block
\* has closed the client, as in update_staff.
create_shift ==
    /\ Idle
    /\ \E token \in Presentable, shift \in ShiftBodies, sends \in BOOLEAN :
        LET req == Req("create_shift", token, <<>>)
            item == ShiftItem(shift)
            r == put_item(tables, "Shifts", item)
        IN  IF ~verify_token(token, now).ok
            THEN /\ sends
                 /\ Reply(req, None, Unauthorized, <<>>, tables)
            ELSE IF ~sends
                 THEN Reply(req, Some([shift |-> shift]), InternalError,
                            <<>>, tables)
                 ELSE Reply(req, Some([shift |-> shift]),
                            IF r.ok THEN Ok(<<"Shift created successfully">>)
                            ELSE InternalError,
                            <<PutCall("Shifts", item)>>, r.tables)

\* DELETE /jta/api/shifts/{shift_id}/{start_date}
delete_shift ==
    /\ Idle
    /\ \E token \in Presentable, shift_id \in ShiftPathIDs,
          start_date \in PathDates, staff_id \in ShiftQueries :
        LET req == ShiftReq("delete_shift", token, shift_id, start_date,
                            staff_id)
            key == ShiftKey(start_date)
            r == delete_item(tables, "Shifts", key)
        IN  IF ~verify_token(token, now).ok
            THEN Reply(req, None, Unauthorized, <<>>, tables)
            ELSE IF staff_id = None
                 THEN Reply(req, None, Unprocessable, <<>>, tables)
                 ELSE Reply(req, Some([staff_id |-> staff_id[1],
                                       start_date |-> start_date]),
                            IF r.ok THEN Ok(<<"Shift deleted successfully">>)
                            ELSE InternalError,
                            <<DeleteCall("Shifts", key)>>, r.tables)

-----------------------------------------------------------------------------
(* Expenses *)

ExpenseNumAttrs ==
    {"youngPersonWeeklyMoney", "maintenance", "IT", "misc", "pettyCash",
     "general"}

ExpenseItem(expense) ==
    [a \in {"expenseID", "date"} \cup ExpenseNumAttrs
        |-> IF a \in ExpenseNumAttrs THEN AttrN(FloatStr(expense[a]))
            ELSE AttrS(expense[a])]

ExpenseKey(expense_id, date) ==
    [a \in {"expenseID", "date"}
        |-> IF a = "expenseID" THEN AttrS(expense_id) ELSE AttrS(date)]

\* POST /jta/api/expense
create_expense ==
    /\ Idle
    /\ \E token \in Presentable, expense \in ExpenseBodies :
        LET req == Req("create_expense", token, <<>>)
            item == ExpenseItem(expense)
            r == put_item(tables, "Expenses", item)
        IN  IF ~verify_token(token, now).ok
            THEN Reply(req, None, Unauthorized, <<>>, tables)
            ELSE Reply(req, Some([expense |-> expense]),
                       IF r.ok THEN Ok(<<"Expense created successfully">>)
                       ELSE InternalError,
                       <<PutCall("Expenses", item)>>, r.tables)

\* GET /jta/api/expenses
get_all_expenses ==
    /\ Idle
    /\ \E token \in Presentable :
        LET req == Req("get_all_expenses", token, <<>>)
            r == scan(tables, "Expenses")
        IN  IF ~verify_token(token, now).ok
            THEN Reply(req, None, Unauthorized, <<>>, tables)
            ELSE Reply(req, Some(<<>>),
                       Ok({deserialize_dynamodb_item_for_list(i) : i \in r.Items}),
                       <<ScanCall("Expenses")>>, tables)

\* GET /jta/api/expense/{expense_id}/{date}
get_expense ==
    /\ Idle
    /\ \E token \in Presentable, expense_id \in ExpensePathIDs,
          date \in PathDates :
        LET req == Req("get_expense", token, <<expense_id, date>>)
            key == ExpenseKey(expense_id, date)
            r == get_item(tables, "Expenses", key)
        IN  IF ~verify_token(token, now).ok
            THEN Reply(req, None, Unauthorized, <<>>, tables)
            ELSE Reply(req, Some([expense_id |-> expense_id, date |-> date]),
                       IF r.ok THEN DecodeItem(r.Item) ELSE InternalError,
                       <<GetCall("Expenses", key)>>, tables)

\* PUT /jta/api/expense/{expense_id}/{date}
update_expense ==
    /\ Idle
    /\ \E token \in Presentable, expense_id \in ExpensePathIDs,
          date \in PathDates, updates \in ExpenseUpdates :
        LET req == Req("update_expense", token, <<expense_id, date>>)
            key == ExpenseKey(expense_id, date)
            update_expression == UpdateExpression(updates)
            expression_attribute_values == ExpressionAttributeValues(updates)
            r == update_item(tables, "Expenses", key, update_expression,
                             expression_attribute_values)
            call == UpdateCall("Expenses", key, update_expression,
                               expression_attribute_values)
        IN  IF ~verify_token(token, now).ok
            THEN /\ updates = <<>>
                 /\ Reply(req, None, Unauthorized, <<>>, tables)
            ELSE Reply(req, Some([expense_id |-> expense_id, date |-> date,
                                  updates |-> updates]),
                       IF r.ok THEN DecodeAttributes(r.Attributes)
                       ELSE InternalError,
                       <<call>>, r.tables)

\* DELETE /jta/api/expense/{expense_id}/{date}
delete_expense ==
    /\ Idle
    /\ \E token \in Presentable, expense_id \in ExpensePathIDs,
          date \in PathDates :
        LET req == Req("delete_expense", token, <<expense_id, date>>)
            key == ExpenseKey(expense_id, date)
            r == delete_item(tables, "Expenses", key)
        IN  IF ~verify_token(token, now).ok
            THEN Reply(req, None, Unauthorized, <<>>, tables)
            ELSE Reply(req, Some([expense_id |-> expense_id, date |-> date]),
                       IF r.ok THEN Ok(<<"Expense deleted successfully">>)
                       ELSE InternalError,
                       <<DeleteCall("Expenses", key)>>, r.tables)

-----------------------------------------------------------------------------
(* Specification *)

Init ==
    /\ now = 0
    /\ utc_now = 0
    /\ ACCESS_TOKEN_EXPIRE_MINUTES \in 0..MaxTTL
    /\ tables = [t \in TableNames |-> {}]
    /\ issued = {}
    /\ request = NoRequest
    /\ args = None
    /\ response = NoResponse
    /\ calls = <<>>

Next ==
    \/ Tick
    \/ send_response
    \/ root
    \/ login
    \/ create_expense
    \/ get_all_expenses
    \/ get_expense
    \/ update_expense
    \/ delete_expense
    \/ create_shift
    \/ get_all_shifts
    \/ get_shift
    \/ update_shift
    \/ delete_shift
    \/ create_staff
    \/ get_all_staff
    \/ get_staff
    \/ update_staff
    \/ delete_staff

Spec == Init /\ [][Next]_vars

-----------------------------------------------------------------------------
(* Properties *)

ProtectedOps ==
    {"create_staff", "get_all_staff", "get_staff", "update_staff",
     "delete_staff",
     "create_shift", "get_all_shifts", "get_shift", "update_shift",
     "delete_shift",
     "create_expense", "get_all_expenses", "get_expense", "update_expense",
     "delete_expense"}
CreateOps == {"create_staff", "create_shift", "create_expense"}
UpdateOps == {"update_staff", "update_shift", "update_expense"}

\* the handler body of the request being answered ran
HandlerRan == ~Idle /\ args # None

\* the key a request's path addresses in its table
PathKey(req) ==
    IF req.op \in {"get_staff", "update_staff", "delete_staff"}
    THEN StaffKey(req.path[1])
    ELSE IF req.op \in {"get_shift", "update_shift", "delete_shift"}
    THEN [a \in {"shiftID", "startDate"}
            |-> IF a = "shiftID" THEN AttrS(req.path[1])
                ELSE AttrS(req.path[2])]
    ELSE ExpenseKey(req.path[1], req.path[2])

TableOf(op) ==
    IF op \in {"create_staff", "get_all_staff", "get_staff", "update_staff",
               "delete_staff"} THEN "Staff"
    ELSE IF op \in {"create_shift", "get_all_shifts", "get_shift",
                    "update_shift", "delete_shift"} THEN "Shifts"
    ELSE "Expenses"

\* every JWT shape: either signing key, with or without sub and exp
AllJwts ==
    { Jwt(sig, sub, exp) :
        sig \in {"SECRET_KEY", "other key"},
        sub \in {None, Some(API_USERNAME)},
        exp \in {None} \cup {Some(e) : e \in 0..(MaxClock + 1)} }

Expired(token, t) ==
    token.kind = "jwt" /\ token.exp # None /\ token.exp[1] < t

\* C1: a successful login (with a positive configured ttl) returns a token
\* that expires at the time of the login plus the ttl and that verify_token
\* accepts, at that moment, as the user who logged in.
C1_LoginTokenFresh ==
    (/\ ~Idle
     /\ request.op = "login"
     /\ response.status = 200
     /\ ACCESS_TOKEN_EXPIRE_MINUTES > 0)
    => /\ response.body.access_token.exp
            = Some(now + ACCESS_TOKEN_EXPIRE_MINUTES)
       /\ verify_token(response.body.access_token, now)
            = [ok |-> TRUE, username |-> args[1].username]

\* C2: verify_token fails, at every time the clock reaches, on every token
\* whose expiry is earlier than that time, whatever its signature and
\* subject; and a request to a protected route that carries such a token is
\* answered 401 without its handler body running or calling the store.
C2_ExpiredTokenRejected ==
    /\ \A token \in AllJwts \cup issued :
          Expired(token, now) => ~verify_token(token, now).ok
    /\ (~Idle /\ request.op \in ProtectedOps /\ Expired(request.token, now))
          => /\ response = Unauthorized
             /\ args = None
             /\ calls = <<>>

\* a token that was signed with the secret and has a subject is presented
\* after its expiry to a protected route, and is refused
C2_Witness ==
    /\ ~Idle
    /\ request.op = "delete_staff"
    /\ request.token.kind = "jwt"
    /\ request.token.sig = "SECRET_KEY"
    /\ request.token.sub = Some(API_USERNAME)
    /\ Expired(request.token, now)
    /\ response.status = 401

\* missing, malformed, wrongly signed, subject-less or expired at time t
BadCredential(token, t) ==
    \/ token.kind # "jwt"
    \/ token.sig # "SECRET_KEY"
    \/ token.sub = None
    \/ Expired(token, t)

StaffAttrs ==
    {"staffID", "fullName", "employmentType", "jobTitle", "hourlyRate"}
ExpenseAttrs == {"expenseID", "date"} \cup ExpenseNumAttrs

\* each attribute of an item decoded to a plain scalar
Decoded(item) ==
    [k \in DOMAIN item |-> deserialize_dynamodb_item(item[k]).value]

\* C4: a get-by-key of a Staff or Expense record that a create stored is
\* answered 200 with every stored field decoded to a plain scalar.
C4_GetAfterCreate ==
    (/\ HandlerRan
     /\ request.op \in {"get_staff", "get_expense"})
    => \A i \in tables[TableOf(request.op)] :
          (/\ KeyOf(TableOf(request.op), i) = PathKey(request)
           /\ DOMAIN i \in {StaffAttrs, ExpenseAttrs})
          => response = Ok(Decoded(i))

\* the value of attribute a of the record a Staff or Expense request addresses
Stored(req, a) ==
    (CHOOSE i \in Lookup(tables, TableOf(req.op), PathKey(req)) : TRUE)[a]

\* C5: a successful Staff or Expense update stores each purely numeric text
\* as a number-typed attribute and returns it as a number, stores any other
\* text as a string and returns it as a string, and returns exactly the
\* updated fields.
C5_NumericUpdateStoredAsNumber ==
    (/\ HandlerRan
     /\ request.op \in {"update_staff", "update_expense"}
     /\ response.status = 200)
    => /\ DOMAIN response.body = DOMAIN args[1].updates
       /\ \A f \in DOMAIN args[1].updates :
            LET v == args[1].updates[f].v
            IN  IF IsNumeric(v)
                THEN /\ Stored(request, f) = AttrN(v)
                     /\ response.body[f] = deserialize_dynamodb_item(AttrN(v)).value
                ELSE /\ Stored(request, f) = AttrS(v)
                     /\ response.body[f] = PyStr(v)

\* the record with this key, or the empty record when there is none
RecordAt(T, t, key) ==
    IF Lookup(T, t, key) = {} THEN <<>>
    ELSE CHOOSE i \in Lookup(T, t, key) : TRUE

\* C6: a successful update changes only the fields named in its updates map,
\* and only on the record its path addresses: that record's other fields and
\* every other record of every table are as before.
C6_UpdateFrame ==
    [][ (/\ Idle
         /\ request'.op \in UpdateOps
         /\ args' # None
         /\ response'.status = 200)
        => LET t == TableOf(request'.op)
               key == PathKey(request')
               old == RecordAt(tables, t, key)
               new == RecordAt(tables', t, key)
               U == DOMAIN args'[1].updates
           IN  /\ \A u \in TableNames \ {t} : tables'[u] = tables[u]
               /\ tables'[t] \ {new} = tables[t] \ {old}
               /\ DOMAIN new \ U = DOMAIN old \ U
               /\ \A a \in DOMAIN old \ U : new[a] = old[a] ]_vars

\* C7: an update with an empty updates map is refused before any store call.
C7_EmptyUpdatesRejected ==
    (/\ HandlerRan
     /\ request.op \in UpdateOps
     /\ args[1].updates = <<>>)
    => /\ calls = <<>>
       /\ response.status # 200

\* C8: the Shift and Expense get, update and delete handlers call the store
\* with the composite key made of both path parameters.
C8_CompositeKeyFromPath ==
    (/\ HandlerRan
     /\ request.op \in {"get_shift", "update_shift", "delete_shift",
                        "get_expense", "update_expense", "delete_expense"})
    => \A n \in 1..Len(calls) : calls[n].Key = PathKey(request)

\* C9: every item a create handler passes to put_item has all the primary
\* key attributes of its table, each a non-empty string.
C9_PutHasFullKey ==
    \A n \in 1..Len(calls) :
        calls[n].op = "put_item"
        => ValidKey(calls[n].TableName,
                    KeyOf(calls[n].TableName, calls[n].Item))

Keys(T, t) == {KeyOf(t, i) : i \in T[t]}

\* C10: a key comes into a table only by a create request; an update of a key
\* with no record creates none.
C10_OnlyCreateAddsRecords ==
    [][ \A t \in TableNames :
          ~(Keys(tables', t) \subseteq Keys(tables, t))
          => request'.op \in CreateOps ]_vars

DeleteOps == {"delete_staff", "delete_shift", "delete_expense"}
GetOps == {"get_staff", "get_shift", "get_expense"}

DeletedMessage(op) ==
    IF op = "delete_staff" THEN <<"Staff deleted successfully">>
    ELSE IF op = "delete_shift" THEN <<"Shift deleted successfully">>
    ELSE <<"Expense deleted successfully">>

\* the request carries every parameter its route requires
Accepted(req) ==
    req.op \in {"get_shift", "update_shift", "delete_shift"}
        => req.query # None

\* C11: a delete-by-key with a valid token, whether or not the key has a
\* record (so also the second of two deletes in a row), is answered with
\* the success message, leaves the key its path addresses absent and leaves
\* every other record of every table as it was.
C11_DeleteIdempotent ==
    [][ (/\ Idle
         /\ request'.op \in DeleteOps
         /\ Accepted(request')
         /\ verify_token(request'.token, now).ok)
        => LET t == TableOf(request'.op)
               key == PathKey(request')
           IN  /\ response' = Ok(DeletedMessage(request'.op))
               /\ Lookup(tables', t, key) = {}
               /\ tables'[t] = tables[t] \ Lookup(tables, t, key)
               /\ \A u \in TableNames \ {t} : tables'[u] = tables[u] ]_vars

\* C12: a get-by-key with a valid token for a key that has no record is
\* answered 200 with the empty object, and the store is as it was.
C12_GetAbsentIsEmpty ==
    [][ (/\ Idle
         /\ request'.op \in GetOps
         /\ Accepted(request')
         /\ verify_token(request'.token, now).ok
         /\ Lookup(tables, TableOf(request'.op), PathKey(request')) = {})
        => /\ response' = Ok(<<>>)
           /\ tables' = tables ]_vars

====
